---- MODULE Spec2Model ----
(***************************************************************************)
(* Model of src/x509_helper_fetch.cc: GetProxyFileFromEnv,                 *)
(* GetProxyFileInternal and GetX509Proxy, one action per system call.      *)
(*                                                                         *)
(* Characters are one-character strings, C strings are sequences of        *)
(* characters, a char buffer is a sequence of fixed length whose C index i *)
(* is the TLA+ index i + 1.                                                *)
(***************************************************************************)
EXTENDS Integers, Sequences, FiniteSets, TLC

\* ------------------------------------------------------------------ bounds

\* Size of the path buffers (PATH_MAX is 4096 on Linux; scaled down so that
\* values around the buffer size are enumerable).  Large enough for every
\* formatted /proc and /tmp path of the model, as 4096 is for the program.
PATH_MAX == 18

\* Chunk size of the read loop of GetX509Proxy (1024 in the program, scaled).
kBufSize == 2

\* ------------------------------------------------------------ characters

NUL == "\\0"
EOF == "EOF"

\* "\0X509_USER_PROXY=" as the scanner indexes it (line 32).
X509_USER_PROXY ==
  <<NUL, "X", "5", "0", "9", "_", "U", "S", "E", "R", "_",
    "P", "R", "O", "X", "Y", "=">>

\* strlen(X509_USER_PROXY + 1) + 1 (line 33)
X509_USER_PROXY_LEN == Len(Tail(X509_USER_PROXY)) + 1

Min(a, b) == IF a < b THEN a ELSE b

\* ------------------------------------------------------ string formatting

DigitChar(d) ==
  CASE d = 0 -> "0" [] d = 1 -> "1" [] d = 2 -> "2" [] d = 3 -> "3"
    [] d = 4 -> "4" [] d = 5 -> "5" [] d = 6 -> "6" [] d = 7 -> "7"
    [] d = 8 -> "8" [] d = 9 -> "9"

RECURSIVE Digits(_)
Digits(n) == IF n < 10 THEN <<DigitChar(n)>>
             ELSE Append(Digits(n \div 10), DigitChar(n % 10))

\* printf's %d of the int i (a uid_t above INT_MAX reaches it as a negative
\* int; the uids and pids of the model are below that).
FmtD(i) == IF i < 0 THEN <<"-">> \o Digits(0 - i) ELSE Digits(i)

\* snprintf(buf, size, ...) of the formatted string s: writes at most
\* size - 1 characters and a NUL, leaves the rest of buf alone, and returns
\* the length s has untruncated.
Snprintf(buf, size, s) ==
  LET k == Min(Len(s), size - 1)
  IN  [buf |-> [i \in 1..Len(buf) |->
                  IF i <= k THEN s[i]
                  ELSE IF i = k + 1 /\ size > 0 THEN NUL
                  ELSE buf[i]],
       n   |-> Len(s)]

\* The C string a buffer holds: the characters before the first NUL.
RECURSIVE CStrFrom(_, _)
CStrFrom(buf, i) ==
  IF i > Len(buf) \/ buf[i] = NUL THEN <<>>
  ELSE <<buf[i]>> \o CStrFrom(buf, i + 1)

CStr(buf) == CStrFrom(buf, 1)

\* "/proc/%d/environ" (line 35)
EnvironPath(pid) ==
  <<"/", "p", "r", "o", "c", "/">> \o FmtD(pid)
    \o <<"/", "e", "n", "v", "i", "r", "o", "n">>

\* "/tmp/x509up_u%d" (line 89)
DefaultProxyPath(uid) ==
  <<"/", "t", "m", "p", "/", "x", "5", "0", "9", "u", "p", "_", "u">>
    \o FmtD(uid)

\* "/proc/%d/root" (line 101)
ContainerRootPath(pid) ==
  <<"/", "p", "r", "o", "c", "/">> \o FmtD(pid) \o <<"/", "r", "o", "o", "t">>

\* "/proc/%d/cwd" (line 107)
ContainerCwdPath(pid) ==
  <<"/", "p", "r", "o", "c", "/">> \o FmtD(pid) \o <<"/", "c", "w", "d">>

\* ------------------------------------------------------------ the scanner

\* fgetc on a stream over the bytes rec with pos bytes consumed.
Fgetc(rec, pos) == IF pos < Len(rec) THEN rec[pos + 1] ELSE EOF

\* The bound lets the scan run past the end of the buffer.
ValueFull_late(idx, path_len) == idx > path_len

\* The destination bound of the scan loop (line 61).
ValueFull(idx, path_len) == idx >= path_len - 1

\* The value does not fit and is clipped: the loop ends as if the value
\* had ended.
Overflow_clipped(idx, buf) == [set_env |-> TRUE, idx |-> idx, buf |-> buf]

\* Line 61: the value does not fit: break, with set_env still false.
Overflow(idx, buf) == [set_env |-> FALSE, idx |-> idx, buf |-> buf]

\* An empty value does not count as a value.
ValueEnd_nonEmpty(idx, buf) ==
  [set_env |-> idx > 0, idx |-> idx, buf |-> buf]

\* Line 62: the NUL after the value: set_env = true; break;
ValueEnd(idx, buf) == [set_env |-> TRUE, idx |-> idx, buf |-> buf]

\* The while (1) loop of lines 58-68, entered with the character c in hand.
RECURSIVE ScanLoop(_, _, _, _, _, _, _)
ScanLoop(rec, pos, c, idx, key_idx, buf, path_len) ==
  IF c = EOF THEN [set_env |-> FALSE, idx |-> idx, buf |-> buf]
  ELSE IF key_idx = X509_USER_PROXY_LEN THEN
    IF ValueFull(idx, path_len)
      THEN Overflow(idx, buf)
    ELSE IF c = NUL
      THEN ValueEnd(idx, buf)
    ELSE ScanLoop(rec, pos + 1, Fgetc(rec, pos), idx + 1, key_idx,
                  [buf EXCEPT ![idx + 1] = c], path_len)
  ELSE
    ScanLoop(rec, pos + 1, Fgetc(rec, pos), idx,
             IF X509_USER_PROXY[key_idx + 1] # c THEN 0 ELSE key_idx + 1,
             buf, path_len)

\* Line 72: if (set_env) {path[idx] = '\0';}
Terminate(r) ==
  IF r.set_env THEN [r.buf EXCEPT ![r.idx + 1] = NUL] ELSE r.buf

\* Lines 55-73 of GetProxyFileFromEnv on an opened environment record: the
\* scan from c = '\0', then the terminator.  [set_env, buf].
ScanEnv(rec, buf, path_len) ==
  LET r == ScanLoop(rec, 0, NUL, 0, 0, buf, path_len)
  IN  [set_env |-> r.set_env, buf |-> Terminate(r)]

\* ------------------------------------------------------------- the inputs

Threads == {1, 2}

\* The requests (AuthzRequest pid, uid, gid) the callers make.
Requests ==
  { [pid |-> 1,  uid |-> 0,  gid |-> 0],
    [pid |-> 1,  uid |-> 2,  gid |-> 2],
    [pid |-> 23, uid |-> 10, gid |-> 2],
    [pid |-> 23, uid |-> 10, gid |-> 10] }

\* The credentials the helper can run with: root, root with the effective
\* ids switched to an unprivileged user (saved ids still 0), and an
\* unprivileged user (cvmfs FUSE-mounted unprivileged, lines 42-43).
Credentials ==
  { [ruid |-> 0, euid |-> 0, suid |-> 0, rgid |-> 0, egid |-> 0, sgid |-> 0],
    [ruid |-> 0, euid |-> 2, suid |-> 0, rgid |-> 0, egid |-> 2, sgid |-> 0],
    [ruid |-> 2, euid |-> 2, suid |-> 2, rgid |-> 2, egid |-> 2, sgid |-> 2] }

\* Directories: <<"root", 0>> is the helper's root, <<"cwd", 0>> a working
\* directory of its own, <<"root", p>> and <<"cwd", p>> what /proc/p/root
\* and /proc/p/cwd lead to.
HostRoot == <<"root", 0>>
HostCwd  == <<"cwd", 0>>

\* An environment entry KEY=VALUE with its terminating NUL.
Entry(k, v) == k \o <<"=">> \o v \o <<NUL>>

KeyName == SubSeq(X509_USER_PROXY, 2, Len(X509_USER_PROXY) - 1)

\* A path of n characters.
LongPath(n) == [i \in 1..n |-> IF i = 1 THEN "/" ELSE "a"]

PathP == <<"/", "p">>
PathQ == <<"/", "q", "q">>
Home  == Entry(<<"H", "O", "M", "E">>, <<"/", "h">>)

\* Values around the buffer size.
ValueLens == {0, 1, PATH_MAX - 3, PATH_MAX - 2, PATH_MAX - 1, PATH_MAX,
              PATH_MAX + 1}

\* Environment records of well-formed entries.
WellFormedRecords ==
  { <<>>,
    Home,
    Entry(KeyName, PathP),
    Home \o Entry(KeyName, PathP) \o Home,
    Entry(KeyName, PathP) \o Entry(KeyName, PathQ),
    Entry(SubSeq(KeyName, 1, 9), PathQ) \o Entry(KeyName, PathP),
    Entry(<<"M", "Y">> \o KeyName, PathQ) \o Entry(KeyName, PathP),
    Entry(<<"M", "Y">> \o KeyName, PathQ),
    Entry(KeyName \o <<"S">>, PathQ) }
  \cup { Home \o Entry(KeyName, LongPath(n)) : n \in ValueLens }

EnvRecords == WellFormedRecords

\* Contents of certificate files: byte i of a file is the number i.
FileLens == {0, kBufSize - 1, kBufSize, kBufSize + 1, 2 * kBufSize}

FileData(n) == [i \in 1..n |-> i]

\* What the caller's string holds before the call.
OldProxies == {<<>>, <<0, 0, 0>>}

UNINIT == "?"

NULL == [open |-> FALSE, data |-> <<>>, pos |-> 0, err |-> FALSE]

BADFD == <<"-1", 0>>

\* -------------------------------------------------------------- the state

VARIABLES
  ids,      \* real and saved uid and gid of the process
  euid,     \* effective uid of the process
  egid,     \* effective gid of the process
  root,     \* root directory of the process
  cwd,      \* working directory of the process
  aborted,  \* abort() was called
  pc,       \* per thread: where it is in GetX509Proxy
  req,      \* per thread: authz_req
  loc,      \* per thread: the local variables of the three functions
  proxy,    \* per thread: *proxy
  ret,      \* per thread: the FILE * GetX509Proxy returned
  pre,      \* per thread: euid, egid, root, cwd and *proxy when called
  scanner   \* GetProxyFileFromEnv run on its own: arguments, buffer, result

vars == <<ids, euid, egid, root, cwd, aborted, pc, req, loc, proxy, ret, pre,
          scanner>>

\* The locals before they are assigned, and what the system calls of the
\* call have answered so far: env_opened (line 46), raised (line 117 left
\* the effective uid 0), chdir_ok (line 129), chroot_ok (line 132),
\* chdir_failed (line 129), attempted (line 145 was reached), fd_open and
\* fd2_open (the descriptors of lines 119 and 120 are open; nothing in the
\* file closes them).
FreshLocals ==
  [ path           |-> [i \in 1..PATH_MAX |-> UNINIT],
    env_olduid     |-> 0,
    env            |-> <<>>,
    scan           |-> [set_env |-> FALSE, idx |-> 0],
    found          |-> FALSE,
    container_path |-> [i \in 1..PATH_MAX |-> UNINIT],
    container_cwd  |-> [i \in 1..PATH_MAX |-> UNINIT],
    olduid         |-> 0,
    oldgid         |-> 0,
    fd             |-> BADFD,
    fd2            |-> BADFD,
    can_chroot     |-> FALSE,
    fp             |-> NULL,
    nbytes         |-> 0,
    env_opened     |-> FALSE,
    raised         |-> FALSE,
    chdir_ok       |-> FALSE,
    chroot_ok      |-> FALSE,
    attempted      |-> FALSE,
    chdir_failed   |-> FALSE,
    fd_open        |-> FALSE,
    fd2_open       |-> FALSE ]

\* No run of the scanner on its own.
NoScan ==
  [rec |-> <<>>, pid |-> 1, path_len |-> 1, buf |-> <<>>, set_env |-> FALSE,
   done |-> "none"]

\* The process before any call.
InitProcess ==
  /\ \E c \in Credentials :
       /\ ids = [ruid |-> c.ruid, suid |-> c.suid, rgid |-> c.rgid,
                 sgid |-> c.sgid]
       /\ euid = c.euid
       /\ egid = c.egid
  /\ root = HostRoot
  /\ cwd \in {HostRoot, HostCwd}
  /\ aborted = FALSE
  /\ pc = [t \in Threads |-> "idle"]
  /\ req = [t \in Threads |-> [pid |-> 1, uid |-> 0, gid |-> 0]]
  /\ loc = [t \in Threads |-> FreshLocals]
  /\ proxy = [t \in Threads |-> <<>>]
  /\ ret = [t \in Threads |-> NULL]
  /\ pre = [t \in Threads |->
              [euid |-> euid, egid |-> egid, root |-> root, cwd |-> cwd,
               proxy |-> <<>>]]

Init ==
  /\ scanner = NoScan
  /\ InitProcess

\* ------------------------------------------------------- the system calls

\* seteuid(uid): allowed with CAP_SETUID (effective uid 0) or to the real,
\* effective or saved uid; otherwise it fails and changes nothing.  The
\* program ignores the return value everywhere.
Seteuid(uid) ==
  IF euid = 0 \/ uid \in {ids.ruid, euid, ids.suid} THEN uid ELSE euid

\* setegid(gid), likewise.
Setegid(gid) ==
  IF euid = 0 \/ gid \in {ids.rgid, egid, ids.sgid} THEN gid ELSE egid

\* chroot needs CAP_SYS_CHROOT.
MayChroot == euid = 0

RECURSIVE AtoI(_, _)
AtoI(s, acc) ==
  IF s = <<>> THEN acc
  ELSE AtoI(Tail(s),
            10 * acc + (CHOOSE d \in 0..9 : DigitChar(d) = Head(s)))

\* Length of the run of decimal digits s has from index i on.
RECURSIVE DigitRun(_, _)
DigitRun(s, i) ==
  IF i <= Len(s) /\ s[i] \in {DigitChar(d) : d \in 0..9}
    THEN 1 + DigitRun(s, i + 1)
    ELSE 0

\* The directory the kernel resolves "/proc/<pid>/root" or "/proc/<pid>/cwd"
\* to: the root or the working directory of process <pid>.
ProcDir(s) ==
  LET n    == DigitRun(s, 7)
      kind == SubSeq(s, 7 + n, Len(s))
  IN  << IF kind = <<"/", "r", "o", "o", "t">> THEN "root"
         ELSE IF kind = <<"/", "c", "w", "d">> THEN "cwd"
         ELSE "enoent",
         AtoI(SubSeq(s, 7, 6 + n), 0) >>

\* ------------------------------------------------------------ the caller

\* Calls are serialized by the caller: GetX509Proxy is entered only while
\* no other thread is inside it.
Serialized(t) == \A u \in Threads \ {t} : pc[u] = "idle"

\* GetX509Proxy(authz_req, proxy) is called (lines 163-168, 82-85).
GetX509ProxyCalled(t) ==
  /\ ~aborted
  /\ pc[t] = "idle"
  /\ \E r \in Requests, old \in OldProxies :
       /\ req' = [req EXCEPT ![t] = r]
       /\ proxy' = [proxy EXCEPT ![t] = old]
       /\ pre' = [pre EXCEPT ![t] =
                    [euid |-> euid, egid |-> egid, root |-> root,
                     cwd |-> cwd, proxy |-> old]]
  /\ loc' = [loc EXCEPT ![t] = FreshLocals]
  /\ ret' = [ret EXCEPT ![t] = NULL]
  /\ pc' = [pc EXCEPT ![t] = "env_geteuid"]
  /\ UNCHANGED <<scanner, ids, euid, egid, root, cwd, aborted>>

\* A call made under the caller's lock.
Call(t) == Serialized(t) /\ GetX509ProxyCalled(t)

\* A call made while another thread is inside GetX509Proxy: the code takes
\* no lock of its own.
CallUnlocked(t) == ~Serialized(t) /\ GetX509ProxyCalled(t)

\* The caller takes the result; the frame of the call is gone.
Release(t) ==
  /\ ~aborted
  /\ pc[t] = "returned"
  /\ pc' = [pc EXCEPT ![t] = "idle"]
  /\ loc' = [loc EXCEPT ![t] = FreshLocals]
  /\ ret' = [ret EXCEPT ![t] = NULL]
  /\ proxy' = [proxy EXCEPT ![t] = <<>>]
  /\ pre' = [pre EXCEPT ![t] =
               [euid |-> euid, egid |-> egid, root |-> root, cwd |-> cwd,
                proxy |-> <<>>]]
  /\ UNCHANGED <<scanner, ids, euid, egid, root, cwd, aborted, req>>

\* ---------------------------------------------------- GetProxyFileFromEnv

\* Lines 35-41: format the name of the environment record, geteuid().
EnvGeteuid(t) ==
  /\ ~aborted
  /\ pc[t] = "env_geteuid"
  /\ LET r == Snprintf(loc[t].path, PATH_MAX, EnvironPath(req[t].pid))
     IN  IF r.n >= PATH_MAX
           THEN /\ loc' = [loc EXCEPT ![t].path = r.buf, ![t].found = FALSE]
                /\ pc' = [pc EXCEPT ![t] = "int_default"]
           ELSE /\ loc' = [loc EXCEPT ![t].path = r.buf,
                                      ![t].env_olduid = euid]
                /\ pc' = [pc EXCEPT ![t] = "env_seteuid0"]
  /\ UNCHANGED <<scanner, ids, euid, egid, root, cwd, aborted, req, proxy, ret, pre>>

\* Line 44: seteuid(0)
EnvSeteuid0(t) ==
  /\ ~aborted
  /\ pc[t] = "env_seteuid0"
  /\ euid' = Seteuid(0)
  /\ pc' = [pc EXCEPT ![t] = "env_fopen"]
  /\ UNCHANGED <<scanner, ids, egid, root, cwd, aborted, req, loc, proxy, ret, pre>>

\* Lines 46-47: fopen(path, "r") fails.
EnvFopenFails(t) ==
  /\ ~aborted
  /\ pc[t] = "env_fopen"
  /\ pc' = [pc EXCEPT ![t] = "env_fail"]
  /\ UNCHANGED <<scanner, ids, euid, egid, root, cwd, aborted, req, loc, proxy, ret,
                 pre>>

\* Line 46: fopen(path, "r") opens the environment record of the process.
EnvFopen(t) ==
  /\ ~aborted
  /\ pc[t] = "env_fopen"
  /\ \E rec \in EnvRecords :
       loc' = [loc EXCEPT ![t].env = rec, ![t].env_opened = TRUE]
  /\ pc' = [pc EXCEPT ![t] = "env_scan"]
  /\ UNCHANGED <<scanner, ids, euid, egid, root, cwd, aborted, req, proxy, ret, pre>>

\* Lines 48-51: seteuid(olduid); return false;
EnvFail(t) ==
  /\ ~aborted
  /\ pc[t] = "env_fail"
  /\ euid' = Seteuid(loc[t].env_olduid)
  /\ loc' = [loc EXCEPT ![t].found = FALSE]
  /\ pc' = [pc EXCEPT ![t] = "int_default"]
  /\ UNCHANGED <<scanner, ids, egid, root, cwd, aborted, req, proxy, ret, pre>>

\* Lines 55-69: the scan of the record, fclose(fp).
EnvScan(t) ==
  /\ ~aborted
  /\ pc[t] = "env_scan"
  /\ LET r == ScanLoop(loc[t].env, 0, NUL, 0, 0, loc[t].path, PATH_MAX)
     IN  loc' = [loc EXCEPT ![t].path = r.buf,
                            ![t].scan = [set_env |-> r.set_env,
                                         idx |-> r.idx]]
  /\ pc' = [pc EXCEPT ![t] = "env_restore"]
  /\ UNCHANGED <<scanner, ids, euid, egid, root, cwd, aborted, req, proxy, ret, pre>>

\* Lines 70-73: seteuid(olduid); terminate the value; return set_env;
EnvRestore(t) ==
  /\ ~aborted
  /\ pc[t] = "env_restore"
  /\ euid' = Seteuid(loc[t].env_olduid)
  /\ loc' = [loc EXCEPT
               ![t].path = Terminate([set_env |-> loc[t].scan.set_env,
                                      idx |-> loc[t].scan.idx,
                                      buf |-> loc[t].path]),
               ![t].found = loc[t].scan.set_env]
  /\ pc' = [pc EXCEPT ![t] =
              IF loc[t].scan.set_env THEN "int_geteuid" ELSE "int_default"]
  /\ UNCHANGED <<scanner, ids, egid, root, cwd, aborted, req, proxy, ret, pre>>

\* --------------------------------------------------- GetProxyFileInternal

\* GetProxyFileInternal returns fp to GetX509Proxy (line 168).
ReturnInternal(t, fp) ==
  /\ loc' = [loc EXCEPT ![t].fp = fp]
  /\ pc' = [pc EXCEPT ![t] = "x_check"]

\* The default location formatted with the helper's own effective uid
\* instead of the uid of the request.
IntDefault_ownUid(t) ==
  /\ ~aborted
  /\ pc[t] = "int_default"
  /\ loc' = [loc EXCEPT ![t].path =
               Snprintf(loc[t].path, PATH_MAX, DefaultProxyPath(euid)).buf]
  /\ pc' = [pc EXCEPT ![t] = "int_geteuid"]
  /\ UNCHANGED <<scanner, ids, euid, egid, root, cwd, aborted, req, proxy, ret, pre>>

\* Lines 85-93: the scanner found nothing, use the default location.
IntDefault(t) ==
  /\ ~aborted
  /\ pc[t] = "int_default"
  /\ LET r == Snprintf(loc[t].path, PATH_MAX, DefaultProxyPath(req[t].uid))
     IN  IF r.n >= PATH_MAX
           THEN /\ loc' = [loc EXCEPT ![t].path = r.buf, ![t].fp = NULL]
                /\ pc' = [pc EXCEPT ![t] = "x_check"]
           ELSE /\ loc' = [loc EXCEPT ![t].path = r.buf]
                /\ pc' = [pc EXCEPT ![t] = "int_geteuid"]
  /\ UNCHANGED <<scanner, ids, euid, egid, root, cwd, aborted, req, proxy, ret, pre>>

\* Lines 100-113: format container_path and container_cwd, geteuid().
IntGeteuid(t) ==
  /\ ~aborted
  /\ pc[t] = "int_geteuid"
  /\ LET r == Snprintf(loc[t].container_path, PATH_MAX,
                       ContainerRootPath(req[t].pid))
         c == Snprintf(loc[t].container_cwd, PATH_MAX,
                       ContainerCwdPath(req[t].pid))
     IN  IF r.n >= PATH_MAX
           THEN /\ loc' = [loc EXCEPT ![t].container_path = r.buf,
                                      ![t].fp = NULL]
                /\ pc' = [pc EXCEPT ![t] = "x_check"]
         ELSE IF c.n >= PATH_MAX
           THEN /\ loc' = [loc EXCEPT ![t].container_path = r.buf,
                                      ![t].container_cwd = c.buf,
                                      ![t].fp = NULL]
                /\ pc' = [pc EXCEPT ![t] = "x_check"]
         ELSE /\ loc' = [loc EXCEPT ![t].container_path = r.buf,
                                    ![t].container_cwd = c.buf,
                                    ![t].olduid = euid]
              /\ pc' = [pc EXCEPT ![t] = "int_getegid"]
  /\ UNCHANGED <<scanner, ids, euid, egid, root, cwd, aborted, req, proxy, ret, pre>>

\* Line 114: getegid()
IntGetegid(t) ==
  /\ ~aborted
  /\ pc[t] = "int_getegid"
  /\ loc' = [loc EXCEPT ![t].oldgid = egid]
  /\ pc' = [pc EXCEPT ![t] = "int_seteuid0"]
  /\ UNCHANGED <<scanner, ids, euid, egid, root, cwd, aborted, req, proxy, ret, pre>>

\* Line 117: seteuid(0)
IntSeteuid0(t) ==
  /\ ~aborted
  /\ pc[t] = "int_seteuid0"
  /\ euid' = Seteuid(0)
  /\ loc' = [loc EXCEPT ![t].raised = (Seteuid(0) = 0)]
  /\ pc' = [pc EXCEPT ![t] = "int_open_root"]
  /\ UNCHANGED <<scanner, ids, egid, root, cwd, aborted, req, proxy, ret, pre>>

\* Line 119: fd = open("/", O_RDONLY), which may fail.
IntOpenRoot(t) ==
  /\ ~aborted
  /\ pc[t] = "int_open_root"
  /\ \E d \in {root, BADFD} :
       loc' = [loc EXCEPT ![t].fd = d, ![t].fd_open = (d # BADFD)]
  /\ pc' = [pc EXCEPT ![t] = "int_open_cwd"]
  /\ UNCHANGED <<scanner, ids, euid, egid, root, cwd, aborted, req, proxy, ret, pre>>

\* Lines 120-121: fd2 = open(".", O_RDONLY), which may fail; the test of
\* the two descriptors.
IntOpenCwd(t) ==
  /\ ~aborted
  /\ pc[t] = "int_open_cwd"
  /\ \E d \in {cwd, BADFD} :
       /\ loc' = [loc EXCEPT ![t].fd2 = d, ![t].fd2_open = (d # BADFD)]
       /\ pc' = [pc EXCEPT ![t] =
                   IF loc[t].fd = BADFD \/ d = BADFD
                     THEN "int_open_failed" ELSE "int_chdir"]
  /\ UNCHANGED <<scanner, ids, euid, egid, root, cwd, aborted, req, proxy, ret, pre>>

\* The early return without its seteuid(olduid).
IntOpenFailed_noRestore(t) ==
  /\ ~aborted
  /\ pc[t] = "int_open_failed"
  /\ loc' = [loc EXCEPT ![t].fp = NULL]
  /\ pc' = [pc EXCEPT ![t] = "x_check"]
  /\ UNCHANGED <<scanner, ids, euid, egid, root, cwd, aborted, req, proxy, ret, pre>>

\* Lines 122-123: seteuid(olduid); return NULL;
IntOpenFailed(t) ==
  /\ ~aborted
  /\ pc[t] = "int_open_failed"
  /\ euid' = Seteuid(loc[t].olduid)
  /\ ReturnInternal(t, NULL)
  /\ UNCHANGED <<scanner, ids, egid, root, cwd, aborted, req, proxy, ret, pre>>

\* Lines 128-129: can_chroot = true; chdir(container_cwd) succeeds.
IntChdir(t) ==
  /\ ~aborted
  /\ pc[t] = "int_chdir"
  /\ cwd' = ProcDir(CStr(loc[t].container_cwd))
  /\ loc' = [loc EXCEPT ![t].can_chroot = TRUE, ![t].chdir_ok = TRUE]
  /\ pc' = [pc EXCEPT ![t] = "int_chroot"]
  /\ UNCHANGED <<scanner, ids, euid, egid, root, aborted, req, proxy, ret, pre>>

\* chdir(container_cwd) fails and the chroot is tried all the same.
IntChdirFails_chroots(t) ==
  /\ ~aborted
  /\ pc[t] = "int_chdir"
  /\ loc' = [loc EXCEPT ![t].can_chroot = TRUE, ![t].chdir_failed = TRUE]
  /\ pc' = [pc EXCEPT ![t] = "int_chroot"]
  /\ UNCHANGED <<scanner, ids, euid, egid, root, cwd, aborted, req, proxy, ret, pre>>

\* Lines 128-132: chdir(container_cwd) fails: can_chroot = false, and the
\* chroot is not tried.
IntChdirFails(t) ==
  /\ ~aborted
  /\ pc[t] = "int_chdir"
  /\ loc' = [loc EXCEPT ![t].can_chroot = FALSE, ![t].chdir_failed = TRUE]
  /\ pc' = [pc EXCEPT ![t] = "int_setegid"]
  /\ UNCHANGED <<scanner, ids, euid, egid, root, cwd, aborted, req, proxy, ret, pre>>

\* Line 132: chroot(container_path) succeeds.
IntChroot(t) ==
  /\ ~aborted
  /\ pc[t] = "int_chroot"
  /\ MayChroot
  /\ root' = ProcDir(CStr(loc[t].container_path))
  /\ loc' = [loc EXCEPT ![t].chroot_ok = TRUE]
  /\ pc' = [pc EXCEPT ![t] = "int_setegid"]
  /\ UNCHANGED <<scanner, ids, euid, egid, cwd, aborted, req, proxy, ret, pre>>

\* Line 132: chroot(container_path) fails (no capability, or the target is
\* gone).
IntChrootFails(t) ==
  /\ ~aborted
  /\ pc[t] = "int_chroot"
  /\ pc' = [pc EXCEPT ![t] = "int_chroot_failed"]
  /\ UNCHANGED <<scanner, ids, euid, egid, root, cwd, aborted, req, loc, proxy, ret,
                 pre>>

\* Line 133: fchdir(fd) succeeds; line 137: can_chroot = false.
IntChrootFailedFchdir(t) ==
  /\ ~aborted
  /\ pc[t] = "int_chroot_failed"
  /\ cwd' = loc[t].fd
  /\ loc' = [loc EXCEPT ![t].can_chroot = FALSE]
  /\ pc' = [pc EXCEPT ![t] = "int_chroot_failed_ret"]
  /\ UNCHANGED <<scanner, ids, euid, egid, root, aborted, req, proxy, ret, pre>>

\* Lines 133-136: fchdir(fd) fails; abort().
IntChrootFailedAbort(t) ==
  /\ ~aborted
  /\ pc[t] = "int_chroot_failed"
  /\ aborted' = TRUE
  /\ pc' = [pc EXCEPT ![t] = "aborted"]
  /\ UNCHANGED <<scanner, ids, euid, egid, root, cwd, req, loc, proxy, ret, pre>>

\* Lines 138-139: seteuid(olduid); return NULL;
IntChrootFailedReturn(t) ==
  /\ ~aborted
  /\ pc[t] = "int_chroot_failed_ret"
  /\ euid' = Seteuid(loc[t].olduid)
  /\ ReturnInternal(t, NULL)
  /\ UNCHANGED <<scanner, ids, egid, root, cwd, aborted, req, proxy, ret, pre>>

\* The two drops in the wrong order: seteuid(uid) first, then setegid(gid)
\* with whatever privilege is left.
IntSetegid_afterSeteuid(t) ==
  /\ ~aborted
  /\ pc[t] = "int_setegid"
  /\ euid' = Seteuid(req[t].uid)
  /\ egid' = IF euid' = 0 \/ req[t].gid \in {ids.rgid, egid, ids.sgid}
              THEN req[t].gid ELSE egid
  /\ pc' = [pc EXCEPT ![t] = "int_fopen"]
  /\ UNCHANGED <<scanner, ids, root, cwd, aborted, req, loc, proxy, ret, pre>>

\* Line 142: setegid(gid)
IntSetegid(t) ==
  /\ ~aborted
  /\ pc[t] = "int_setegid"
  /\ egid' = Setegid(req[t].gid)
  /\ pc' = [pc EXCEPT ![t] = "int_seteuid"]
  /\ UNCHANGED <<scanner, ids, euid, root, cwd, aborted, req, loc, proxy, ret, pre>>

\* Line 143: seteuid(uid)
IntSeteuid(t) ==
  /\ ~aborted
  /\ pc[t] = "int_seteuid"
  /\ euid' = Seteuid(req[t].uid)
  /\ pc' = [pc EXCEPT ![t] = "int_fopen"]
  /\ UNCHANGED <<scanner, ids, egid, root, cwd, aborted, req, loc, proxy, ret, pre>>

\* Line 145: fopen(path, "r") opens the file; there is no file of the
\* empty name (ENOENT).
IntFopen(t) ==
  /\ ~aborted
  /\ pc[t] = "int_fopen"
  /\ CStr(loc[t].path) # <<>>
  /\ \E n \in FileLens :
       loc' = [loc EXCEPT ![t].fp = [open |-> TRUE, data |-> FileData(n),
                                     pos |-> 0, err |-> FALSE],
                          ![t].attempted = TRUE]
  /\ pc' = [pc EXCEPT ![t] = "int_reseteuid0"]
  /\ UNCHANGED <<scanner, ids, euid, egid, root, cwd, aborted, req, proxy, ret, pre>>

\* The failed open returns NULL at once, skipping lines 147-157.
IntFopenFails_returns(t) ==
  /\ ~aborted
  /\ pc[t] = "int_fopen"
  /\ loc' = [loc EXCEPT ![t].fp = NULL, ![t].attempted = TRUE]
  /\ pc' = [pc EXCEPT ![t] = "x_check"]
  /\ UNCHANGED <<scanner, ids, euid, egid, root, cwd, aborted, req, proxy, ret, pre>>

\* Line 145: fopen(path, "r") fails (no such file, permission denied).
IntFopenFails(t) ==
  /\ ~aborted
  /\ pc[t] = "int_fopen"
  /\ loc' = [loc EXCEPT ![t].fp = NULL, ![t].attempted = TRUE]
  /\ pc' = [pc EXCEPT ![t] = "int_reseteuid0"]
  /\ UNCHANGED <<scanner, ids, euid, egid, root, cwd, aborted, req, proxy, ret, pre>>

\* Line 147 left out: superuser is not re-acquired before the reversal.
IntReseteuid0_skipped(t) ==
  /\ ~aborted
  /\ pc[t] = "int_reseteuid0"
  /\ pc' = [pc EXCEPT ![t] =
              IF loc[t].can_chroot THEN "int_fchdir_root"
              ELSE "int_restore_gid"]
  /\ UNCHANGED <<scanner, ids, euid, egid, root, cwd, aborted, req, loc, proxy, ret,
                 pre>>

\* Lines 147-148: seteuid(0); the test of can_chroot.
IntReseteuid0(t) ==
  /\ ~aborted
  /\ pc[t] = "int_reseteuid0"
  /\ euid' = Seteuid(0)
  /\ pc' = [pc EXCEPT ![t] =
              IF loc[t].can_chroot THEN "int_fchdir_root"
              ELSE "int_restore_gid"]
  /\ UNCHANGED <<scanner, ids, egid, root, cwd, aborted, req, loc, proxy, ret, pre>>

\* Line 149: fchdir(fd) succeeds.
IntFchdirRoot(t) ==
  /\ ~aborted
  /\ pc[t] = "int_fchdir_root"
  /\ cwd' = loc[t].fd
  /\ pc' = [pc EXCEPT ![t] = "int_chroot_dot"]
  /\ UNCHANGED <<scanner, ids, euid, egid, root, aborted, req, loc, proxy, ret, pre>>

\* Line 150: chroot(".") succeeds.
IntChrootDot(t) ==
  /\ ~aborted
  /\ pc[t] = "int_chroot_dot"
  /\ MayChroot
  /\ root' = cwd
  /\ pc' = [pc EXCEPT ![t] = "int_fchdir_cwd"]
  /\ UNCHANGED <<scanner, ids, euid, egid, cwd, aborted, req, loc, proxy, ret, pre>>

\* Line 151: fchdir(fd2) succeeds.
IntFchdirCwd(t) ==
  /\ ~aborted
  /\ pc[t] = "int_fchdir_cwd"
  /\ cwd' = loc[t].fd2
  /\ pc' = [pc EXCEPT ![t] = "int_restore_gid"]
  /\ UNCHANGED <<scanner, ids, euid, egid, root, aborted, req, loc, proxy, ret, pre>>

\* A failure of fchdir(fd), chroot(".") or fchdir(fd2) is ignored.
IntReverseAbort_ignored(t) ==
  /\ ~aborted
  /\ pc[t] \in {"int_fchdir_root", "int_chroot_dot", "int_fchdir_cwd"}
  /\ pc' = [pc EXCEPT ![t] = "int_restore_gid"]
  /\ UNCHANGED <<scanner, ids, euid, egid, root, cwd, aborted, req, loc, proxy, ret,
                 pre>>

\* Lines 149-154: one of fchdir(fd), chroot("."), fchdir(fd2) fails; abort().
IntReverseAbort(t) ==
  /\ ~aborted
  /\ pc[t] \in {"int_fchdir_root", "int_chroot_dot", "int_fchdir_cwd"}
  /\ aborted' = TRUE
  /\ pc' = [pc EXCEPT ![t] = "aborted"]
  /\ UNCHANGED <<scanner, ids, euid, egid, root, cwd, req, loc, proxy, ret, pre>>

\* Line 156: setegid(oldgid)
IntRestoreGid(t) ==
  /\ ~aborted
  /\ pc[t] = "int_restore_gid"
  /\ egid' = Setegid(loc[t].oldgid)
  /\ pc' = [pc EXCEPT ![t] = "int_restore_uid"]
  /\ UNCHANGED <<scanner, ids, euid, root, cwd, aborted, req, loc, proxy, ret, pre>>

\* Lines 157-159: seteuid(olduid); return fp;
IntRestoreUid(t) ==
  /\ ~aborted
  /\ pc[t] = "int_restore_uid"
  /\ euid' = Seteuid(loc[t].olduid)
  /\ pc' = [pc EXCEPT ![t] = "x_check"]
  /\ UNCHANGED <<scanner, ids, egid, root, cwd, aborted, req, loc, proxy, ret, pre>>

\* ----------------------------------------------------------- GetX509Proxy

\* Lines 169-173: fproxy == NULL; return NULL;
XNoProxy(t) ==
  /\ ~aborted
  /\ pc[t] = "x_check"
  /\ ~loc[t].fp.open
  /\ ret' = [ret EXCEPT ![t] = NULL]
  /\ pc' = [pc EXCEPT ![t] = "returned"]
  /\ UNCHANGED <<scanner, ids, euid, egid, root, cwd, aborted, req, loc, proxy, pre>>

\* Lines 169, 175: fproxy != NULL; proxy->clear();
XClear(t) ==
  /\ ~aborted
  /\ pc[t] = "x_check"
  /\ loc[t].fp.open
  /\ proxy' = [proxy EXCEPT ![t] = <<>>]
  /\ pc' = [pc EXCEPT ![t] = "x_fread"]
  /\ UNCHANGED <<scanner, ids, euid, egid, root, cwd, aborted, req, loc, ret, pre>>

\* The bytes fread(buf, 1, kBufSize, fproxy) asks for that the file has.
Avail(fp) == Min(kBufSize, Len(fp.data) - fp.pos)

\* Lines 180-183 with n bytes read: append them, test nbytes == kBufSize.
Fread(t, n) ==
  LET fp == loc[t].fp
  IN  /\ loc' = [loc EXCEPT ![t].nbytes = n,
                            ![t].fp.pos = fp.pos + n,
                            ![t].fp.err = n < Avail(fp)]
      /\ proxy' = [proxy EXCEPT ![t] =
                     IF n > 0
                       THEN proxy[t] \o SubSeq(fp.data, fp.pos + 1, fp.pos + n)
                       ELSE proxy[t]]
      /\ pc' = [pc EXCEPT ![t] = IF n = kBufSize THEN "x_fread"
                                 ELSE "x_rewind"]

\* Line 180: fread returns all it was asked for, or all up to end of file.
XFread(t) ==
  /\ ~aborted
  /\ pc[t] = "x_fread"
  /\ Fread(t, Avail(loc[t].fp))
  /\ UNCHANGED <<scanner, ids, euid, egid, root, cwd, aborted, req, ret, pre>>

\* Line 180: a read error: fread returns fewer bytes than the file has for
\* it and sets the error indicator of the stream.
XFreadError(t) ==
  /\ ~aborted
  /\ pc[t] = "x_fread"
  /\ \E n \in 0..(Avail(loc[t].fp) - 1) : Fread(t, n)
  /\ UNCHANGED <<scanner, ids, euid, egid, root, cwd, aborted, req, ret, pre>>

\* Lines 185-186: rewind(fproxy); return fproxy;
XRewind(t) ==
  /\ ~aborted
  /\ pc[t] = "x_rewind"
  /\ ret' = [ret EXCEPT ![t] =
               [loc[t].fp EXCEPT !.pos = 0, !.err = FALSE]]
  /\ pc' = [pc EXCEPT ![t] = "returned"]
  /\ UNCHANGED <<scanner, ids, euid, egid, root, cwd, aborted, req, loc, proxy, pre>>

\* ------------------------------------------------------ the specification

Next ==
  \E t \in Threads :
    \/ Call(t)
    \/ Release(t)
    \/ EnvGeteuid(t)
    \/ EnvSeteuid0(t)
    \/ EnvFopen(t)
    \/ EnvFopenFails(t)
    \/ EnvFail(t)
    \/ EnvScan(t)
    \/ EnvRestore(t)
    \/ IntDefault(t)
    \/ IntGeteuid(t)
    \/ IntGetegid(t)
    \/ IntSeteuid0(t)
    \/ IntOpenRoot(t)
    \/ IntOpenCwd(t)
    \/ IntOpenFailed(t)
    \/ IntChdir(t)
    \/ IntChdirFails(t)
    \/ IntChroot(t)
    \/ IntChrootFails(t)
    \/ IntChrootFailedFchdir(t)
    \/ IntChrootFailedAbort(t)
    \/ IntChrootFailedReturn(t)
    \/ IntSetegid(t)
    \/ IntSeteuid(t)
    \/ IntFopen(t)
    \/ IntFopenFails(t)
    \/ IntReseteuid0(t)
    \/ IntFchdirRoot(t)
    \/ IntChrootDot(t)
    \/ IntFchdirCwd(t)
    \/ IntReverseAbort(t)
    \/ IntRestoreGid(t)
    \/ IntRestoreUid(t)
    \/ XNoProxy(t)
    \/ XClear(t)
    \/ XFread(t)
    \/ XFreadError(t)
    \/ XRewind(t)

Spec == Init /\ [][Next]_vars

\* ------------------------------------- restoring set*id calls that fail
\* seteuid and setegid can fail for reasons other than permission (EAGAIN,
\* ENOMEM, EINVAL); the code ignores their return values (lines 42-43), so
\* after a failed call it goes on as after a successful one.

\* Line 49: seteuid(olduid) fails after the environment open failed.
EnvFailSeteuidFails(t) ==
  /\ ~aborted
  /\ pc[t] = "env_fail"
  /\ loc' = [loc EXCEPT ![t].found = FALSE]
  /\ pc' = [pc EXCEPT ![t] = "int_default"]
  /\ UNCHANGED <<scanner, ids, euid, egid, root, cwd, aborted, req, proxy,
                 ret, pre>>

\* Line 70: seteuid(olduid) fails after the scan.
EnvRestoreSeteuidFails(t) ==
  /\ ~aborted
  /\ pc[t] = "env_restore"
  /\ loc' = [loc EXCEPT
               ![t].path = Terminate([set_env |-> loc[t].scan.set_env,
                                      idx |-> loc[t].scan.idx,
                                      buf |-> loc[t].path]),
               ![t].found = loc[t].scan.set_env]
  /\ pc' = [pc EXCEPT ![t] =
              IF loc[t].scan.set_env THEN "int_geteuid" ELSE "int_default"]
  /\ UNCHANGED <<scanner, ids, euid, egid, root, cwd, aborted, req, proxy,
                 ret, pre>>

\* Lines 122-123 and 138-139: seteuid(olduid) fails; return NULL.
IntEarlySeteuidFails(t) ==
  /\ ~aborted
  /\ pc[t] \in {"int_open_failed", "int_chroot_failed_ret"}
  /\ ReturnInternal(t, NULL)
  /\ UNCHANGED <<scanner, ids, euid, egid, root, cwd, aborted, req, proxy,
                 ret, pre>>

\* Line 156: setegid(oldgid) fails.
IntRestoreGidFails(t) ==
  /\ ~aborted
  /\ pc[t] = "int_restore_gid"
  /\ pc' = [pc EXCEPT ![t] = "int_restore_uid"]
  /\ UNCHANGED <<scanner, ids, euid, egid, root, cwd, aborted, req, loc,
                 proxy, ret, pre>>

\* Line 157: seteuid(olduid) fails; return fp.
IntRestoreUidFails(t) ==
  /\ ~aborted
  /\ pc[t] = "int_restore_uid"
  /\ pc' = [pc EXCEPT ![t] = "x_check"]
  /\ UNCHANGED <<scanner, ids, euid, egid, root, cwd, aborted, req, loc,
                 proxy, ret, pre>>

\* One call, from the state before any call, in which every restoring
\* set*id call may fail as well as succeed; what the process does after a
\* call returned with leaked ids is not followed.
NextFail ==
  \E t \in Threads :
    \/ Call(t)
    \/ EnvGeteuid(t)
    \/ EnvSeteuid0(t)
    \/ EnvFopen(t)
    \/ EnvFopenFails(t)
    \/ EnvFail(t)
    \/ EnvScan(t)
    \/ EnvRestore(t)
    \/ IntDefault(t)
    \/ IntGeteuid(t)
    \/ IntGetegid(t)
    \/ IntSeteuid0(t)
    \/ IntOpenRoot(t)
    \/ IntOpenCwd(t)
    \/ IntOpenFailed(t)
    \/ IntChdir(t)
    \/ IntChdirFails(t)
    \/ IntChroot(t)
    \/ IntChrootFails(t)
    \/ IntChrootFailedFchdir(t)
    \/ IntChrootFailedAbort(t)
    \/ IntChrootFailedReturn(t)
    \/ IntSetegid(t)
    \/ IntSeteuid(t)
    \/ IntFopen(t)
    \/ IntFopenFails(t)
    \/ IntReseteuid0(t)
    \/ IntFchdirRoot(t)
    \/ IntChrootDot(t)
    \/ IntFchdirCwd(t)
    \/ IntReverseAbort(t)
    \/ IntRestoreGid(t)
    \/ IntRestoreUid(t)
    \/ XNoProxy(t)
    \/ XClear(t)
    \/ XFread(t)
    \/ XFreadError(t)
    \/ XRewind(t)
    \/ EnvFailSeteuidFails(t)
    \/ EnvRestoreSeteuidFails(t)
    \/ IntEarlySeteuidFails(t)
    \/ IntRestoreGidFails(t)
    \/ IntRestoreUidFails(t)

SpecFail == Init /\ [][NextFail]_vars

\* ------------------------------------------- calls without the caller's lock

\* Two threads, one request each, made with or without the lock.  The two
\* opens by path name fail and the descriptors and chdir are obtained, so
\* that each call takes the default path through GetProxyFileInternal.
RaceRequest(t) ==
  IF t = 1 THEN [pid |-> 23, uid |-> 10, gid |-> 10]
           ELSE [pid |-> 1, uid |-> 2, gid |-> 2]

RaceCall(t) ==
  /\ Call(t) \/ CallUnlocked(t)
  /\ req'[t] = RaceRequest(t)
  /\ proxy'[t] = <<>>

NextRace ==
  \E t \in Threads :
    \/ RaceCall(t)
    \/ EnvGeteuid(t)
    \/ EnvSeteuid0(t)
    \/ EnvFopenFails(t)
    \/ EnvFail(t)
    \/ IntDefault(t)
    \/ IntGeteuid(t)
    \/ IntGetegid(t)
    \/ IntSeteuid0(t)
    \/ IntOpenRoot(t) /\ loc'[t].fd_open
    \/ IntOpenCwd(t) /\ loc'[t].fd2_open
    \/ IntChdir(t)
    \/ IntChroot(t)
    \/ IntChrootFails(t)
    \/ IntChrootFailedFchdir(t)
    \/ IntChrootFailedReturn(t)
    \/ IntSetegid(t)
    \/ IntSeteuid(t)
    \/ IntFopenFails(t)
    \/ IntReseteuid0(t)
    \/ IntFchdirRoot(t)
    \/ IntChrootDot(t)
    \/ IntFchdirCwd(t)
    \/ IntReverseAbort(t)
    \/ IntRestoreGid(t)
    \/ IntRestoreUid(t)
    \/ XNoProxy(t)

SpecRace == Init /\ [][NextRace]_vars

\* ------------------------------ GetProxyFileFromEnv as a function of its
\* arguments and of the environment record it reads

\* Cells after the caller's buffer, which no write may touch.
GuardCells == 2

\* Entries that are not X509_USER_PROXY=<value>: another variable, an empty
\* entry, entries without '=', proper prefixes of the key, and keys that
\* contain the name.
NoiseEntries ==
  { Home,
    <<NUL>>,
    SubSeq(KeyName, 1, 4) \o <<NUL>>,
    KeyName \o <<NUL>>,
    Entry(SubSeq(KeyName, 1, 9), PathQ),
    Entry(<<"M", "Y">> \o KeyName, PathQ),
    Entry(KeyName \o <<"S">>, PathQ) }

\* The lengths of "/proc/<pid>/environ" for the pids of the requests.
EnvironLens == {Len(EnvironPath(r.pid)) : r \in Requests}

\* Buffer sizes: the smallest ones, and those around the sizes at which the
\* name of the record just fits.
ScanPathLens ==
  {1, 2} \cup {n \in 3..(PATH_MAX + 1) : \E e \in EnvironLens : n >= e - 1}

\* Value lengths: empty, short, and around the buffer sizes.
ScanValueLens ==
  {0, 2} \cup {n \in 3..(PATH_MAX + 2) : \E e \in EnvironLens : n >= e - 2}

ScanRecords ==
  { a \o b \o c :
      a \in {<<>>} \cup NoiseEntries,
      b \in {<<>>} \cup {Entry(KeyName, LongPath(n)) : n \in ScanValueLens},
      c \in {<<>>, Home, Entry(KeyName, PathP)} }

\* A call GetProxyFileFromEnv(pid, path_len, path) with an uninitialized
\* buffer of path_len bytes, for a process whose environment is rec.
ScanInputs ==
  { [rec |-> rec, pid |-> r.pid, path_len |-> n,
     buf |-> [i \in 1..(n + GuardCells) |-> UNINIT],
     set_env |-> FALSE, done |-> "call"] :
      rec \in ScanRecords, r \in Requests, n \in ScanPathLens }

InitScan ==
  /\ scanner \in ScanInputs
  /\ InitProcess

\* Lines 35-73 when the record opens: snprintf of the name of the record
\* into path, return false when it does not fit, else the scan.
GetProxyFileFromEnv(pid, path_len, path, rec) ==
  LET r == Snprintf(path, path_len, EnvironPath(pid))
  IN  IF r.n >= path_len
        THEN [set_env |-> FALSE, buf |-> r.buf]
        ELSE ScanEnv(rec, r.buf, path_len)

ScanCall ==
  /\ scanner.done = "call"
  /\ LET r == GetProxyFileFromEnv(scanner.pid, scanner.path_len, scanner.buf,
                                  scanner.rec)
     IN  scanner' = [scanner EXCEPT !.buf = r.buf, !.set_env = r.set_env,
                                    !.done = "return"]
  /\ UNCHANGED <<ids, euid, egid, root, cwd, aborted, pc, req, loc, proxy,
                 ret, pre>>

SpecScan == InitScan /\ [][ScanCall]_vars

\* ------------------------------------------- reference notions for claims

\* The entries of an environment record: its pieces between NUL bytes.
RECURSIVE RefSplit(_, _)
RefSplit(rec, cur) ==
  IF rec = <<>> THEN (IF cur = <<>> THEN <<>> ELSE <<cur>>)
  ELSE IF Head(rec) = NUL THEN <<cur>> \o RefSplit(Tail(rec), <<>>)
  ELSE RefSplit(Tail(rec), Append(cur, Head(rec)))

RefKey ==
  <<"X", "5", "0", "9", "_", "U", "S", "E", "R", "_",
    "P", "R", "O", "X", "Y", "=">>

RefIsProxyEntry(e) ==
  Len(e) >= Len(RefKey) /\ SubSeq(e, 1, Len(RefKey)) = RefKey

\* The value of the first entry X509_USER_PROXY=<value> of a record.
RefLookup(rec) ==
  LET es == RefSplit(rec, <<>>)
      is == {i \in 1..Len(es) : RefIsProxyEntry(es[i])}
  IN  IF is = {} THEN [found |-> FALSE, value |-> <<>>]
      ELSE LET i == CHOOSE j \in is : \A k \in is : j <= k
           IN  [found |-> TRUE,
                value |-> SubSeq(es[i], Len(RefKey) + 1, Len(es[i]))]

\* "/tmp/x509up_u<uid>" for the uids of the requests, written out.
RefDefault(uid) ==
  <<"/", "t", "m", "p", "/", "x", "5", "0", "9", "u", "p", "_", "u">> \o
  (CASE uid = 0 -> <<"0">> [] uid = 2 -> <<"2">> [] uid = 10 -> <<"1", "0">>)

IsPrefix(p, s) == Len(p) <= Len(s) /\ SubSeq(s, 1, Len(p)) = p

\* GetProxyFileInternal has returned to GetX509Proxy, or GetX509Proxy to
\* its caller.
Returned(t) == pc[t] \in {"x_check", "x_fread", "x_rewind", "returned"}

\* The process state is what it was when the call was made.
IdsRestored(t) == euid = pre[t].euid /\ egid = pre[t].egid
DirsRestored(t) == root = pre[t].root /\ cwd = pre[t].cwd

\* ------------------------------------------------------------- the claims

\* C1: whenever a serialized call returns (handle or NULL), the effective
\* uid, effective gid, root and working directory of the process equal
\* their values immediately before the call.
C1_StateRestoredAtReturn ==
  \A t \in Threads :
    pc[t] = "returned" => IdsRestored(t) /\ DirsRestored(t)

\* C2: if the environment record holds well-formed entries and its entry
\* X509_USER_PROXY=<path> has a path shorter than PATH_MAX, the scanner
\* reports success and the path opened is <path>, byte for byte.
C2_ShortValueIsOpened ==
  \A t \in Threads :
    ( /\ pc[t] = "int_fopen"
      /\ loc[t].env_opened
      /\ loc[t].env \in WellFormedRecords
      /\ RefLookup(loc[t].env).found
      /\ Len(RefLookup(loc[t].env).value) < PATH_MAX )
    => /\ loc[t].found
       /\ CStr(loc[t].path) = RefLookup(loc[t].env).value

\* C3: when the environment record cannot be opened, or holds no
\* X509_USER_PROXY entry, the path opened is "/tmp/x509up_u<uid>" of the
\* uid of the request.
C3_DefaultPathOfTargetUid ==
  \A t \in Threads :
    ( /\ pc[t] = "int_fopen"
      /\ (~loc[t].env_opened \/ ~RefLookup(loc[t].env).found) )
    => CStr(loc[t].path) = RefDefault(req[t].uid)

\* C3, its case: the record was read, holds entries but not the variable,
\* the caller's uid is not the target's, and the default path of the target
\* is about to be opened.
C3_Witness ==
  \E t \in Threads :
    /\ pc[t] = "int_fopen"
    /\ loc[t].env_opened
    /\ loc[t].env # <<>>
    /\ ~RefLookup(loc[t].env).found
    /\ req[t].uid = 10
    /\ pre[t].euid = 2
    /\ CStr(loc[t].path) = RefDefault(10)

\* C4: when chdir into the target's cwd succeeds and the chroot fails, the
\* call is not failed: the candidate path is still opened, the result of
\* that open is what is returned, and the effective ids are restored.
C4_ChrootFailureDegrades ==
  \A t \in Threads :
    ( /\ Returned(t)
      /\ loc[t].chdir_ok
      /\ ~loc[t].chroot_ok )
    => loc[t].attempted /\ IdsRestored(t)

\* C5: once the root was changed, a failing step of its reversal terminates
\* the process: GetProxyFileInternal does not return with a root or cwd that
\* differs from the snapshot, and after the abort nothing runs any more.
C5_ReversalFailureIsFatal ==
  /\ \A t \in Threads :
       (Returned(t) /\ loc[t].chroot_ok) => DirsRestored(t)
  /\ \A t \in Threads :
       ( /\ loc[t].chroot_ok
         /\ pc[t] \notin {"int_setegid", "int_seteuid", "int_fopen",
                          "int_reseteuid0", "int_fchdir_root",
                          "int_chroot_dot", "int_fchdir_cwd"}
         /\ ~DirsRestored(t) )
       => aborted
  /\ aborted => ~ENABLED Next

\* C5, its case: the root was changed, the reversal got as far as the
\* original root and then failed, and the process is terminated.
C5_Witness ==
  \E t \in Threads :
    /\ aborted
    /\ pc[t] = "aborted"
    /\ loc[t].chroot_ok
    /\ root = pre[t].root
    /\ cwd # pre[t].cwd

\* C6: when the candidate path is opened after a successful escalation, the
\* effective gid and uid are those of the request, and if the namespace was
\* entered the root and cwd are those of the target process.
C6_OpenedAsTarget ==
  \A t \in Threads :
    (pc[t] = "int_fopen" /\ loc[t].raised)
    => /\ egid = req[t].gid
       /\ euid = req[t].uid
       /\ (euid = 0 => req[t].uid = 0)
       /\ loc[t].can_chroot =>
            /\ root = <<"root", req[t].pid>>
            /\ cwd = <<"cwd", req[t].pid>>

\* C6, its case: an unprivileged-looking helper with saved uid 0 is about
\* to open the path inside the namespace of process 23 as uid 10, gid 10.
C6_Witness ==
  \E t \in Threads :
    /\ pc[t] = "int_fopen"
    /\ loc[t].raised
    /\ loc[t].can_chroot
    /\ pre[t].euid = 2
    /\ req[t] = [pid |-> 23, uid |-> 10, gid |-> 10]
    /\ euid = 10
    /\ egid = 10
    /\ root = <<"root", 23>>

\* The X509_USER_PROXY value of the record read is too long for the path
\* buffer and its terminating NUL.
ValueTooLong(t) ==
  /\ loc[t].env_opened
  /\ RefLookup(loc[t].env).found
  /\ Len(RefLookup(loc[t].env).value) >= PATH_MAX

\* C7, as stated: a value longer than the maximum path length ends the
\* request with NULL, and no truncated prefix of it is opened.
C7_TooLongEndsNotFound ==
  \A t \in Threads :
    /\ (pc[t] = "int_fopen" /\ ValueTooLong(t))
       => ~IsPrefix(CStr(loc[t].path), RefLookup(loc[t].env).value)
    /\ (pc[t] = "returned" /\ ValueTooLong(t)) => ~ret[t].open

\* C7, amended: for a value longer than the maximum path length the scanner
\* reports not found and the request goes on with the default path
\* /tmp/x509up_u<uid>; no truncated prefix of the value is opened, and the
\* request ends with NULL exactly when the open of the default path fails.
C7_TooLongFallsBack ==
  \A t \in Threads :
    /\ (pc[t] = "int_fopen" /\ ValueTooLong(t))
       => /\ ~loc[t].found
          /\ CStr(loc[t].path) = RefDefault(req[t].uid)
          /\ ~IsPrefix(CStr(loc[t].path), RefLookup(loc[t].env).value)
    /\ (pc[t] = "returned" /\ ValueTooLong(t))
       => (ret[t].open <=> (loc[t].attempted /\ loc[t].fp.open))

\* C7, its case: the value is too long, the default path was opened and
\* the call returned its handle.
C7_Witness ==
  \E t \in Threads :
    /\ pc[t] = "returned"
    /\ ValueTooLong(t)
    /\ ret[t].open
    /\ CStr(loc[t].path) = RefDefault(req[t].uid)

\* C8: GetX509Proxy returns a handle with the complete contents of the
\* file in *proxy, or NULL with *proxy as the caller left it; never a handle
\* with part of the file.
C8_CompleteOrNull ==
  \A t \in Threads :
    pc[t] = "returned" =>
      IF ret[t].open THEN proxy[t] = ret[t].data
      ELSE proxy[t] = pre[t].proxy

\* C9: after GetX509Proxy returned a handle, the handle is at offset 0 and
\* reading it from there to the end of the file yields the bytes of *proxy.
C9_RewindRereadsProxy ==
  \A t \in Threads :
    (pc[t] = "returned" /\ ret[t].open)
    => /\ ret[t].pos = 0
       /\ SubSeq(ret[t].data, ret[t].pos + 1, Len(ret[t].data)) = proxy[t]

\* C10: when the candidate path cannot be opened, the rollback still runs:
\* the failed open is followed by the re-acquisition of superuser, the call
\* does not abort unless the root had been changed (and its reversal then
\* failed), and it returns NULL with effective ids, root and cwd restored
\* and *proxy untouched.
C10_OpenFailureRollsBack ==
  \A t \in Threads :
    (loc[t].attempted /\ ~loc[t].fp.open)
    => /\ pc[t] \in {"int_reseteuid0", "int_fchdir_root", "int_chroot_dot",
                     "int_fchdir_cwd", "int_restore_gid", "int_restore_uid",
                     "x_check", "returned", "aborted"}
       /\ pc[t] = "aborted" => loc[t].chroot_ok
       /\ Returned(t) => IdsRestored(t) /\ DirsRestored(t)
       /\ pc[t] \in {"int_restore_gid", "int_restore_uid"}
            => (DirsRestored(t) /\ (loc[t].raised => euid = 0))
       /\ pc[t] = "returned" => (~ret[t].open /\ proxy[t] = pre[t].proxy)

\* C10, its case: the open failed inside the target's namespace as the
\* target user, and the call has returned NULL.
C10_Witness ==
  \E t \in Threads :
    /\ pc[t] = "returned"
    /\ loc[t].attempted
    /\ ~loc[t].fp.open
    /\ loc[t].chroot_ok
    /\ loc[t].raised
    /\ req[t].uid = 10
    /\ pre[t].euid = 2

\* C12: on every return path of GetProxyFileFromEnv and of
\* GetProxyFileInternal the effective uid and gid are the values geteuid()
\* and getegid() gave at entry (privileged set*id calls taking effect).
C12_IdsAtEveryReturn ==
  \A t \in Threads :
    /\ pc[t] \in {"int_default", "int_geteuid"}
         => /\ euid = loc[t].env_olduid
            /\ IdsRestored(t)
    /\ Returned(t)
         => /\ euid = loc[t].olduid
            /\ egid = loc[t].oldgid
            /\ IdsRestored(t)

\* C12, its case: the early return after a failed open of "/" or ".", in a
\* run that had raised the effective uid from 2 to 0.
C12_Witness ==
  \E t \in Threads :
    /\ Returned(t)
    /\ loc[t].raised
    /\ loc[t].fd2 = BADFD
    /\ loc[t].olduid = 2
    /\ euid = 2

\* C16: the descriptors opened on "/" and "." are closed before
\* GetProxyFileInternal returns, on every return path.
C16_DescriptorsReleased ==
  \A t \in Threads :
    Returned(t) => ~loc[t].fd_open /\ ~loc[t].fd2_open

\* The calls that change the effective gid or the root, and the chdir and
\* fchdir calls around them.
PrivilegedSteps ==
  {"int_chdir", "int_chroot", "int_setegid", "int_fchdir_root",
   "int_chroot_dot", "int_fchdir_cwd", "int_restore_gid"}

\* C17: in a privileged run every call that changes the effective gid or
\* the root is issued with effective uid 0; the gid is dropped before the
\* uid and restored before the uid.
C17_PrivilegedOrdering ==
  \A t \in Threads :
    loc[t].raised =>
      /\ pc[t] \in PrivilegedSteps => euid = 0
      /\ pc[t] = "int_seteuid" => (euid = 0 /\ egid = req[t].gid)
      /\ pc[t] = "int_restore_uid" => (euid = 0 /\ egid = loc[t].oldgid)

\* C17, its case: superuser is held again while the root is reversed, after
\* the file was opened as uid 10 inside the root of process 23.
C17_Witness ==
  \E t \in Threads :
    /\ pc[t] = "int_chroot_dot"
    /\ loc[t].raised
    /\ loc[t].attempted
    /\ req[t].uid = 10
    /\ pre[t].euid = 2
    /\ euid = 0
    /\ root = <<"root", 23>>

\* C18: when chdir into the target's cwd fails, no chroot and no fchdir is
\* called, root and cwd stay as they were all through the call, the process
\* does not abort, and the candidate path is still opened; the reversal of
\* the root is attempted only when the root was changed.
C18_ChdirFailureTouchesNothing ==
  \A t \in Threads :
    /\ loc[t].chdir_failed
         => /\ DirsRestored(t)
            /\ ~loc[t].chroot_ok
            /\ pc[t] \notin {"int_chroot", "int_chroot_failed",
                             "int_chroot_failed_ret", "int_fchdir_root",
                             "int_chroot_dot", "int_fchdir_cwd", "aborted"}
            /\ Returned(t) => loc[t].attempted
    /\ pc[t] \in {"int_fchdir_root", "int_chroot_dot", "int_fchdir_cwd"}
         => loc[t].chroot_ok

\* C18, its case: chdir failed and the call returned the handle of the file
\* it opened in the caller's namespace.
C18_Witness ==
  \E t \in Threads :
    /\ pc[t] = "returned"
    /\ loc[t].chdir_failed
    /\ loc[t].attempted
    /\ ret[t].open
    /\ cwd = HostCwd

\* The record read has X509_USER_PROXY= with nothing after the '='.
EmptyValue(t) ==
  /\ loc[t].env_opened
  /\ RefLookup(loc[t].env).found
  /\ RefLookup(loc[t].env).value = <<>>

\* C20: an entry X509_USER_PROXY= with an empty value counts as found: the
\* path opened is the empty path, the default path is not used, and the
\* request ends with NULL as the open of the empty path fails.
C20_EmptyValueIsFound ==
  \A t \in Threads :
    EmptyValue(t) =>
      /\ pc[t] # "int_default"
      /\ pc[t] = "int_fopen"
           => /\ loc[t].found
              /\ CStr(loc[t].path) = <<>>
              /\ CStr(loc[t].path) # RefDefault(req[t].uid)
      /\ loc[t].attempted => ~loc[t].fp.open
      /\ pc[t] = "returned" => ~ret[t].open

\* C20, its case: the empty path was tried and the call returned NULL.
C20_Witness ==
  \E t \in Threads :
    /\ pc[t] = "returned"
    /\ EmptyValue(t)
    /\ loc[t].found
    /\ loc[t].attempted
    /\ ~ret[t].open

\* ------------------------------------------------- the scanner on its own

\* The scan was reached: the name of the record fitted the buffer.
ScanReached ==
  /\ scanner.done = "return"
  /\ Len(EnvironPath(scanner.pid)) < scanner.path_len

\* C14 (as stated): whenever the value of the first X509_USER_PROXY entry
\* of the record fits the buffer with room to spare, the scanner returns
\* the found/not-found result and the value of the tokenizer that splits
\* the record on NUL and takes the first entry with exactly that key.
C14_ScannerIsTokenizer ==
  LET ref == RefLookup(scanner.rec)
  IN  (/\ ScanReached
       /\ ref.found => Len(ref.value) <= scanner.path_len - 2)
        => /\ scanner.set_env = ref.found
           /\ scanner.set_env => CStr(scanner.buf) = ref.value

\* C15 (as stated): for a record whose first entry is X509_USER_PROXY=v,
\* v is returned in full when Len(v) <= path_len - 1 and the result is
\* not found when Len(v) >= path_len.
C15_AcceptsExactlyWhatFits ==
  LET es == RefSplit(scanner.rec, <<>>)
  IN  (/\ ScanReached
       /\ es # <<>>
       /\ RefIsProxyEntry(es[1]))
        => LET v == RefLookup(scanner.rec).value
           IN  /\ Len(v) <= scanner.path_len - 1
                     => /\ scanner.set_env
                        /\ CStr(scanner.buf) = v
               /\ Len(v) >= scanner.path_len => ~scanner.set_env

\* C19: when GetProxyFileFromEnv returns, the cells after the path_len
\* bytes of the caller's buffer are untouched, and when it returns true a
\* NUL lies within the path_len bytes.
C19_WritesStayInBuffer ==
  scanner.done = "return" =>
    /\ \A i \in (scanner.path_len + 1)..Len(scanner.buf) :
         scanner.buf[i] = UNINIT
    /\ scanner.set_env =>
         \E i \in 1..scanner.path_len : scanner.buf[i] = NUL

\* The scan ran over a value longer than the whole buffer.
C19_Witness ==
  /\ ScanReached
  /\ RefLookup(scanner.rec).found
  /\ Len(RefLookup(scanner.rec).value) > scanner.path_len

\* ------------------------------------------------ restorations that fail

\* C13 (as stated): a call never returns while the effective uid or gid
\* differs from what it was when the call was made, even when a restoring
\* seteuid or setegid fails: such a failure ends the process instead.
C13_FailedRestorationIsFatal ==
  \A t \in Threads :
    Returned(t) => (euid = pre[t].euid /\ egid = pre[t].egid)

\* ---------------------------------------------------------- serialization

\* The path was opened under the identity and in the namespace of the
\* call's own request.
OwnIdentity(t) ==
  /\ euid = req[t].uid
  /\ egid = req[t].gid
  /\ loc[t].can_chroot =>
       /\ root = <<"root", req[t].pid>>
       /\ cwd = <<"cwd", req[t].pid>>

\* C11 (as stated, the serialized half): with every call made under the
\* lock, a privileged call opens its path under its own request's identity
\* and every call that returns leaves effective uid, effective gid, root
\* and working directory as they were when it was made.
C11_SerializedCallsAreSafe ==
  \A t \in Threads :
    /\ (pc[t] = "int_fopen" /\ loc[t].raised) => OwnIdentity(t)
    /\ Returned(t) => (IdsRestored(t) /\ DirsRestored(t))

\* C11, the unserialized half: both calls have returned and the effective
\* uid, the effective gid or the root of the process is what it was at
\* neither call, so not what it was before the first of them.
C11_RaceCorrupts ==
  /\ \A t \in Threads : pc[t] = "returned"
  /\ \A t \in Threads : ~(IdsRestored(t) /\ root = pre[t].root)

\* C11, the unserialized half: a privileged call opens its path under an
\* identity that is not its request's.
C11_RaceOpensAsOther ==
  \E t \in Threads :
    /\ pc[t] = "int_fopen"
    /\ loc[t].raised
    /\ ~OwnIdentity(t)


====
